---- MODULE Spec2Model ----
(***************************************************************************)
(* Model of the analyser (rss-analyser-v10.py): the enrichment loop of     *)
(* main(), the batch processor process_batch() and the store functions.    *)
(***************************************************************************)
EXTENDS Integers, Sequences, FiniteSets, TLC

\* ---------------------------------------------------------------- bounds
\* Entry identifiers in the store are 0..MaxId (an id column is any integer).
MaxId == 2
\* BATCH_SIZE is 10 in the source; scaled down so that a run has several batches.
BATCH_SIZE == 2

\* MAX_RUNTIME_SECONDS is 3600 in the source; scaled down so that a run of a
\* few batches reaches the ceiling.
MAX_RUNTIME_SECONDS == 5
\* A generate_content call takes 0..MaxCallTime seconds.
MaxCallTime == 1

\* add_new_entries is called with limit=20; scaled down so that a feed longer
\* than the limit fits.
limit == 2
\* Published times of feed entries are 1..MaxTime.
MaxTime == 2

\* ------------------------------------------------------ program constants
max_retries == 3
initial_retry_delay == 1
REQUESTS_PER_MINUTE == 15
SECONDS_PER_REQUEST == 60 \div REQUESTS_PER_MINUTE

Ids == 0..MaxId
\* A decoded array has up to one element more than a full batch.
MaxDataLen == BATCH_SIZE + 1

Min(a, b) == IF a < b THEN a ELSE b

\* ------------------------------------------------------------ the store
\* SQL NULL / Python None for a text column.
Null == "<NULL>"

\* Row of rss_feed_entries as selected by fetch_unprocessed_entries:
\* (id, title, description).  Odd ids carry text, even ids NULL columns.
EntryRow(id) ==
    [id |-> id,
     title |-> IF id % 2 = 1 THEN "A" ELSE Null,
     description |-> IF id % 2 = 1 THEN "d1" ELSE Null]

RECURSIVE DescendingSeq(_)
DescendingSeq(S) ==
    IF S = {} THEN <<>>
    ELSE LET m == CHOOSE x \in S : \A y \in S : x >= y
         IN  <<m>> \o DescendingSeq(S \ {m})

RECURSIVE AscendingSeq(_)
\* The ids of a set as a sequence in ascending order (ORDER BY id ASC).
AscendingSeq(S) ==
    IF S = {} THEN <<>>
    ELSE LET m == CHOOSE x \in S : \A y \in S : x <= y
         IN  <<m>> \o AscendingSeq(S \ {m})

\* SELECT id, title, description FROM rss_feed_entries
\* WHERE processed = FALSE ORDER BY id ASC LIMIT batch_size
fetch_unprocessed_entries(view, batch_size) ==
    LET ids == AscendingSeq({i \in Ids : ~view.processed[i]})
        n   == Min(Len(ids), batch_size)
    IN  [k \in 1..n |-> EntryRow(ids[k])]

\* UPDATE rss_feed_entries SET processed = TRUE WHERE id = %s, for every id
\* of ids; success_ids is unused.  Acts on the connection's transaction.
MarkOnlySuccessful(conn, ids, success_ids) ==
    [conn EXCEPT !.tx.processed =
        [i \in Ids |-> @[i] \/ (\E k \in 1..Len(success_ids) : success_ids[k] = i)]]

mark_as_processed(conn, ids, success_ids) ==
    [conn EXCEPT !.tx.processed =
        [i \in Ids |-> @[i] \/ (\E k \in 1..Len(ids) : ids[k] = i)]]

\* INSERT INTO rss_feed_analysed ... for every tuple of analysed_data.
\* Acts on the connection's transaction; nothing is committed.
InsertAutocommit(conn, analysed_data) ==
    [conn EXCEPT !.tx.analysed = @ \o analysed_data,
                 !.db.analysed = @ \o analysed_data]

insert_analysed_entries(conn, analysed_data) ==
    [conn EXCEPT !.tx.analysed = @ \o analysed_data]

\* conn.commit(): the transaction's view becomes the committed store.
Commit(conn) == [conn EXCEPT !.db = conn.tx]

\* conn.rollback(): the transaction's work is discarded.
RollbackMissing(conn) == conn

Rollback(conn) == [conn EXCEPT !.tx = conn.db]

\* ------------------------------------------------- decoded JSON values
\* A decoded JSON value is a record with a field t naming its Python type.
JStr(s) == [t |-> "str", s |-> s]
JList(l) == [t |-> "list", items |-> l]
JNum == [t |-> "int"]
JNull == [t |-> "NoneType"]
\* A key that the object does not have.
Absent == [t |-> "absent"]
JObject(tt, td, kw, se, ca) ==
    [t |-> "dict", translated_title |-> tt, translated_description |-> td,
     keywords |-> kw, sentiment |-> se, category |-> ca]

IsStr(v) == v.t = "str"
IsListOfStr(v) == v.t = "list" /\ \A k \in 1..Len(v.items) : v.items[k].t = "str"

\* json.dumps of a list of strings.
RECURSIVE JoinQuoted(_)
JoinQuoted(l) ==
    IF l = <<>> THEN ""
    ELSE "\"" \o l[1] \o "\"" \o (IF Len(l) > 1 THEN ", " ELSE "") \o JoinQuoted(Tail(l))

json_dumps(l) == "[" \o JoinQuoted(l) \o "]"

\* ArticleResponse(**raw_item): a non-mapping argument raises TypeError; a
\* field of the wrong type raises ValidationError; an absent field takes its
\* default ("" or []).
ArticleResponse(raw_item) ==
    IF raw_item.t # "dict" THEN [exc |-> "TypeError"]
    ELSE IF \/ ~(raw_item.translated_title = Absent \/ IsStr(raw_item.translated_title))
            \/ ~(raw_item.translated_description = Absent \/ IsStr(raw_item.translated_description))
            \/ ~(raw_item.keywords = Absent \/ IsListOfStr(raw_item.keywords))
            \/ ~(raw_item.sentiment = Absent \/ IsStr(raw_item.sentiment))
            \/ ~(raw_item.category = Absent \/ IsStr(raw_item.category))
         THEN [exc |-> "ValidationError"]
    ELSE [exc |-> "none",
          translated_title |->
              IF raw_item.translated_title = Absent THEN "" ELSE raw_item.translated_title.s,
          translated_description |->
              IF raw_item.translated_description = Absent THEN ""
              ELSE raw_item.translated_description.s,
          keywords |->
              IF raw_item.keywords = Absent THEN <<>>
              ELSE [k \in 1..Len(raw_item.keywords.items) |-> raw_item.keywords.items[k].s],
          sentiment |-> IF raw_item.sentiment = Absent THEN "" ELSE raw_item.sentiment.s,
          category |-> IF raw_item.category = Absent THEN "" ELSE raw_item.category.s]

\* The tuple appended to results for a validated item.
ResultTuple(entry_id, validated_item) ==
    <<entry_id, validated_item.translated_title, validated_item.translated_description,
      json_dumps(validated_item.keywords), validated_item.sentiment, validated_item.category>>

\* ------------------------------------------------ the API response text
\* The response text is a sequence of tokens: the fence with its language
\* tag, the bare fence, and a run of text that is or is not a JSON document
\* (surrounding whitespace is what strip() removes and is left out).
\* FenceJson is the text ```json and Fence the text ```.
FenceJson == [tok |-> "fence+json"]
Fence == [tok |-> "fence"]
JsonText(v) == [tok |-> "text", valid |-> TRUE, data |-> v]
Garbage == [tok |-> "text", valid |-> FALSE]

\* Index of the first token of s that contains the separator sep, 0 if none
\* (```json contains ```).
Contains(token, sep) ==
    \/ token = sep
    \/ (sep = Fence /\ token = FenceJson)
FirstIndex(s, sep) ==
    IF \E k \in 1..Len(s) : Contains(s[k], sep)
    THEN CHOOSE k \in 1..Len(s) : Contains(s[k], sep) /\ \A j \in 1..(k-1) : ~Contains(s[j], sep)
    ELSE 0

\* s.split(sep)[0]: the text before the first occurrence of sep.
SplitFirst(s, sep) ==
    IF FirstIndex(s, sep) = 0 THEN s ELSE SubSeq(s, 1, FirstIndex(s, sep) - 1)
\* s.split(sep)[1]: the text between the first and the second occurrence.
SplitSecond(s, sep) ==
    SplitFirst(SubSeq(s, FirstIndex(s, sep) + 1, Len(s)), sep)

\* Lines 197-202: strip the Markdown fences.
StripFences(raw_response) ==
    LET c1 == IF Len(raw_response) > 0 /\ raw_response[1] = FenceJson
              THEN SplitSecond(raw_response, FenceJson) ELSE raw_response
    IN  IF Len(c1) > 0 /\ c1[Len(c1)] = Fence THEN SplitFirst(c1, Fence) ELSE c1

\* json.loads: the text must be exactly one JSON document.
json_loads(cleaned_response) ==
    IF Len(cleaned_response) = 1 /\ cleaned_response[1].tok = "text" /\ cleaned_response[1].valid
    THEN [exc |-> "none", data |-> cleaned_response[1].data]
    ELSE [exc |-> "JSONDecodeError"]

\* Lines 207-208: the decoded value must be a list.
CoerceObjectToList(data) ==
    IF data.t = "list" THEN [exc |-> "none", items |-> data.items]
    ELSE IF data.t = "dict" THEN [exc |-> "none", items |-> <<data>>]
    ELSE [exc |-> "ValueError"]

TopLevelList(data) ==
    IF data.t = "list" THEN [exc |-> "none", items |-> data.items]
    ELSE [exc |-> "ValueError"]

\* Lines 157-163: entry_map[idx + 1] = entry_id.
EntryMap(batch) == [i \in 1..Len(batch) |-> batch[i].id]

\* entry_map.get(key): None when the key is not mapped.
EntryMapGet(entry_map, key) ==
    IF key \in DOMAIN entry_map THEN [none |-> FALSE, id |-> entry_map[key]]
    ELSE [none |-> TRUE]

\* `not entry_id`: None and 0 are both falsy.
NotEntryId(got) == got.none \/ got.id = 0

\* data[:len(entries)]
SliceTo(data, n) == SubSeq(data, 1, Min(Len(data), n))

\* Lines 217-236: the loop over the sliced items, from position idx (1-based)
\* on.  A TypeError leaves the loop; acc is the results list at that point.
RECURSIVE ValidateItems(_, _, _, _)
ValidateItems(items, idx, entry_map, acc) ==
    IF idx > Len(items) THEN [exc |-> "none", results |-> acc]
    ELSE LET got == EntryMapGet(entry_map, idx)
             v   == ArticleResponse(items[idx])
         IN  IF NotEntryId(got) THEN ValidateItems(items, idx + 1, entry_map, acc)
             ELSE IF v.exc = "TypeError" THEN [exc |-> "TypeError", results |-> acc]
             ELSE IF v.exc = "ValidationError"
                  THEN ValidateItems(items, idx + 1, entry_map, acc)
             ELSE ValidateItems(items, idx + 1, entry_map,
                                Append(acc, ResultTuple(got.id, v)))

\* Lines 195-242: what process_batch returns once the API has answered with
\* raw_response.  Every path ends in `return results`: the returns of
\* line 212, the end of the loop, and the handler of line 238, which logs
\* and falls through to line 242 with the list as the loop left it.
\* exc names the exception that was caught on the way, if any.
ParseAndValidate(raw_response, batch, acc) ==
    LET decoded == json_loads(StripFences(raw_response))
    IN  IF decoded.exc # "none" THEN [exc |-> decoded.exc, results |-> acc]
        ELSE LET top == TopLevelList(decoded.data)
             IN  IF top.exc # "none" THEN [exc |-> top.exc, results |-> acc]
                 ELSE ValidateItems(SliceTo(top.items, Len(batch)), 1,
                                    EntryMap(batch), acc)

\* Lines 156-163: one block per entry, NULL columns replaced by placeholders.
BatchInput(batch) ==
    [i \in 1..Len(batch) |->
        [n |-> i,
         title |-> IF batch[i].title # Null THEN batch[i].title ELSE "Untitled",
         description |-> IF batch[i].description # Null THEN batch[i].description
                         ELSE "No description"]]

\* Lines 147-152 and 170-173: reading PROMPT_FILE and formatting it.  open()
\* is guarded by `except FileNotFoundError` only; format() runs inside the
\* try of line 169.
\*   returned  - process_batch returns results before any API call
\*   raised    - the exception leaves process_batch
\*   prompt    - the prompt is ready for the API
\* exc names the exception raised on the way, if any.
LoadPrompt(file, batch_input) ==
    IF file.state = "missing"
    THEN [outcome |-> "returned", exc |-> "FileNotFoundError"]    \* line 150
    ELSE IF file.state = "unreadable"
    THEN [outcome |-> "raised", exc |-> "PermissionError"]        \* line 148, not caught
    ELSE IF Len(batch_input) = 0
    THEN [outcome |-> "returned", exc |-> "none"]                 \* line 165
    ELSE IF file.text = "stray_brace"
    THEN [outcome |-> "returned", exc |-> "KeyError"]             \* line 170, caught at 238
    ELSE IF file.text = "blank"
    THEN [outcome |-> "returned", exc |-> "none"]                 \* line 171
    ELSE [outcome |-> "prompt", exc |-> "none"]

\* Line 139: results = []
StaleResults(previous) == previous

NewResults(previous) == <<>>

\* --------------------------------------------------- environment choices
PromptFiles ==
    {[state |-> "missing"], [state |-> "unreadable"],
     [state |-> "ok", text |-> "placeholder"],
     [state |-> "ok", text |-> "blank"],
     [state |-> "ok", text |-> "stray_brace"]}

ItemFull ==
    JObject(JStr("A*"), JStr("d1*"), JList(<<JStr("x")>>), JStr("neutral"), JStr("news"))
ItemEmpty == JObject(Absent, Absent, Absent, Absent, Absent)
ItemBadKeywords == JObject(JStr("B*"), Absent, JStr("x"), Absent, Absent)
ItemNotObject == JStr("oops")

ArrayItems == {ItemFull, ItemEmpty, ItemBadKeywords, ItemNotObject}
Arrays == UNION {[1..n -> ArrayItems] : n \in 0..MaxDataLen}
NotArrays == {ItemFull, JStr("text"), JNum, JNull}
Documents == {JsonText(JList(a)) : a \in Arrays} \cup {JsonText(v) : v \in NotArrays}
             \cup {Garbage}

\* The texts the API can answer with: a document, bare or fenced.
ResponseTexts ==
    UNION {{<<d>>, <<FenceJson, d, Fence>>, <<Fence, d, Fence>>} : d \in Documents}

NoResponse == <<>>
NoFailure == [none |-> TRUE]

\* ----------------------------------------------------------------- state
VARIABLES
    pc,                     \* position of main()
    conn,                   \* [db: committed store, tx: the connection's view]
    entries,                \* the fetched batch
    prompt_file,            \* state of PROMPT_FILE when process_batch read it
    attempt,                \* loop variable of the retry loop
    retry_delay,
    api_calls,              \* generate_content calls made for this batch
    raw_response,
    caught,                 \* the exception process_batch met, "none" if none
    results,                \* process_batch's list / analysed_data
    processed_count_in_run,
    exit,                   \* how the run ended
    persist,                \* outcome of the last Persist step
    before,                 \* committed store when the batch was fetched
    failed                  \* the last rolled-back Persist

\* The variables of main() and process_batch as the untimed loop sees them.
loopVars == <<pc, conn, entries, prompt_file, attempt, retry_delay, api_calls,
              raw_response, caught, results, processed_count_in_run, exit, persist, before,
              failed>>

VARIABLES
    pool_out                \* connections taken from connection_pool and not put back

VARIABLES
    clock,                  \* time.time(), in seconds
    start_time,
    last_request_time,
    prev_call,              \* when the generate_content call before the last one began
    last_call,              \* when the last generate_content call of the run began
    waits                   \* the sleeps of the retry loop for this batch

timeVars == <<clock, start_time, last_request_time, prev_call, last_call, waits>>

\* Two instances of the script on one store.
VARIABLES
    store2,                 \* the committed store both instances work on
    inst                    \* per instance: position, batch, results, open transaction

twoVars == <<store2, inst>>

\* The fetcher script (rss-fetcher-v10.py).
VARIABLES
    fpc,                    \* position in fetch_and_save_rss_feeds
    run,                    \* which run of the script this is
    src,                    \* the source the loop of line 89 is at
    feeds,                  \* what each source's URL serves, the same in every run
    fstore,                 \* the committed rows of rss_feed_entries
    pending,                \* rows added to the session and not committed
    after1                  \* the committed rows when the first run ended

fetcherVars == <<fpc, run, src, feeds, fstore, pending, after1>>

vars == <<loopVars, pool_out, timeVars, twoVars, fetcherVars>>

\* No generate_content call yet in this run.
NoCall == -1
\* time.time() counts from 1970: at the start the clock is far beyond
\* SECONDS_PER_REQUEST.
ClockStart == SECONDS_PER_REQUEST

entry_ids == [i \in 1..Len(entries) |-> entries[i].id]
success_ids == [i \in 1..Len(results) |-> results[i][1]]

Stores == {[processed |-> p, analysed |-> <<>>] : p \in [Ids -> BOOLEAN]}

Instances == {"A", "B"}

\* An instance between two batches: nothing fetched, no open transaction.
IdleInstance ==
    [pc |-> "loop", entries |-> <<>>, results |-> <<>>, rows |-> <<>>, marked |-> {}]

\* The second instance is not running.
TwoIdle ==
    /\ store2 = [processed |-> [i \in Ids |-> TRUE], analysed |-> <<>>]
    /\ inst = [i \in Instances |-> IdleInstance]

\* The fetcher is not running.
FetcherIdle ==
    /\ fpc = "closed"
    /\ run = 2
    /\ src = 1
    /\ feeds = <<>>
    /\ fstore = <<>>
    /\ pending = <<>>
    /\ after1 = <<>>

LoopInit ==
    /\ pc = "start"
    /\ \E s \in Stores : conn = [db |-> s, tx |-> s]
    /\ entries = <<>>
    /\ prompt_file = [state |-> "unread"]
    /\ attempt = 0
    /\ retry_delay = initial_retry_delay
    /\ api_calls = 0
    /\ raw_response = NoResponse
    /\ caught = "none"
    /\ results = <<>>
    /\ processed_count_in_run = 0
    /\ exit = "running"
    /\ persist = "none"
    /\ before = conn.db
    /\ failed = NoFailure
    /\ pool_out = 0
    /\ clock = ClockStart
    /\ start_time = ClockStart
    /\ last_request_time = 0
    /\ prev_call = NoCall
    /\ last_call = NoCall
    /\ waits = <<>>

Init == LoopInit /\ TwoIdle /\ FetcherIdle

\* The single-instance variables at rest, for the specifications that do not
\* use them.
LoopIdle == LoopInit /\ \A i \in Ids : conn.db.processed[i]

\* --------------------------------------------------------------- main()
\* The run ends: `break` (lines 263, 269) or the handlers of lines 323-326.
EndRun(how) ==
    /\ pc' = "done"
    /\ exit' = how

\* Lines 245-257: take the connection and count the unprocessed entries.  A
\* store error in count_unprocessed_entries reaches the handler of line 323.
MainStart ==
    /\ pc = "start"
    /\ \/ pc' = "loop" /\ exit' = exit
       \/ EndRun("error_count")
    /\ processed_count_in_run' = 0
    /\ UNCHANGED <<conn, entries, prompt_file, attempt, retry_delay, api_calls,
                   raw_response, caught, results, persist, before, failed>>

\* Lines 259-263: the runtime ceiling, checked at the top of each iteration.
TimeoutCheck ==
    /\ pc = "loop"
    /\ \E exceeded \in BOOLEAN :
          IF exceeded THEN EndRun("timeout") ELSE pc' = "poll" /\ exit' = exit
    /\ UNCHANGED <<conn, entries, prompt_file, attempt, retry_delay, api_calls,
                   raw_response, caught, results, processed_count_in_run, persist, before, failed>>

\* Lines 265-272: fetch the next batch through the connection.  A store
\* error here is outside the try of line 286 and ends the run (line 323).
Poll ==
    /\ pc = "poll"
    /\ \/ /\ entries' = fetch_unprocessed_entries(conn.tx, BATCH_SIZE)
          /\ IF entries' = <<>> THEN EndRun("exhausted")
             ELSE pc' = "process_batch" /\ exit' = exit
          /\ before' = conn.db
          /\ failed' = IF persist = "committed" THEN NoFailure ELSE failed
       \/ /\ EndRun("error_fetch")
          /\ UNCHANGED <<entries, before, failed>>
    /\ UNCHANGED <<conn, prompt_file, attempt, retry_delay, api_calls,
                   raw_response, caught, results, processed_count_in_run, persist>>

\* Lines 137-176 (called at line 282): process_batch up to the retry loop.
\* An exception that leaves process_batch is outside the try of line 286
\* and is caught by the handler of line 325, which ends the run.
ProcessBatchBegin ==
    /\ pc = "process_batch"
    /\ results' = NewResults(results)
    /\ raw_response' = NoResponse
    /\ api_calls' = 0
    /\ attempt' = 0
    /\ retry_delay' = initial_retry_delay
    /\ \E pf \in PromptFiles :
         /\ prompt_file' = pf
         /\ LET load == LoadPrompt(pf, BatchInput(entries))
            IN  /\ caught' = load.exc
                /\ CASE load.outcome = "returned" -> pc' = "insert" /\ exit' = exit
                     [] load.outcome = "raised" -> EndRun("error_process_batch")
                     [] load.outcome = "prompt" -> pc' = "generate" /\ exit' = exit
    /\ UNCHANGED <<conn, entries, processed_count_in_run, persist, before, failed>>

\* ApiCallFails with line 190 (retry_delay *= 2) left out.
ApiCallFailsNoBackoff ==
    /\ pc = "generate"
    /\ api_calls' = api_calls + 1
    /\ IF attempt = max_retries - 1
       THEN pc' = "insert" /\ caught' = "APIError" /\ UNCHANGED <<attempt, retry_delay>>
       ELSE /\ pc' = "generate"
            /\ attempt' = attempt + 1
            /\ retry_delay' = retry_delay
            /\ caught' = caught
    /\ UNCHANGED <<conn, entries, prompt_file, raw_response, results,
                   processed_count_in_run, exit, persist, before, failed>>

\* Lines 178-193: generate_content raises.  The last attempt re-raises into
\* the handler of line 238, and process_batch returns results.
ApiCallFails ==
    /\ pc = "generate"
    /\ api_calls' = api_calls + 1
    /\ IF attempt = max_retries - 1
       THEN pc' = "insert" /\ caught' = "APIError" /\ UNCHANGED <<attempt, retry_delay>>
       ELSE /\ pc' = "generate"
            /\ attempt' = attempt + 1
            /\ retry_delay' = retry_delay * 2
            /\ caught' = caught
    /\ UNCHANGED <<conn, entries, prompt_file, raw_response, results,
                   processed_count_in_run, exit, persist, before, failed>>

\* Lines 180-187 and 195: generate_content returns but response.text raises
\* (no text part); the handler of line 238 logs and results is returned.
ApiCallNoText ==
    /\ pc = "generate"
    /\ api_calls' = api_calls + 1
    /\ pc' = "insert"
    /\ caught' = "ValueError"
    /\ UNCHANGED <<conn, entries, prompt_file, attempt, retry_delay, raw_response, results,
                   processed_count_in_run, exit, persist, before, failed>>

\* Lines 180-187 and 195-242: generate_content returns a text, which is
\* cleaned, decoded and validated.
ApiCallReturnsFrom(texts) ==
    /\ pc = "generate"
    /\ api_calls' = api_calls + 1
    /\ \E text \in texts :
         /\ raw_response' = text
         /\ results' = ParseAndValidate(text, entries, results).results
         /\ caught' = ParseAndValidate(text, entries, results).exc
    /\ pc' = "insert"
    /\ UNCHANGED <<conn, entries, prompt_file, attempt, retry_delay,
                   processed_count_in_run, exit, persist, before, failed>>

ApiCallReturns == ApiCallReturnsFrom(ResponseTexts)

\* Lines 286-291: insert the analysed tuples, if any.
PersistInsert ==
    /\ pc = "insert"
    /\ \/ /\ conn' = IF results # <<>> THEN insert_analysed_entries(conn, results) ELSE conn
          /\ pc' = "mark"
       \/ /\ results # <<>>          \* psycopg2.Error in insert_analysed_entries
          /\ conn' = conn
          /\ pc' = "rollback"
    /\ UNCHANGED <<entries, prompt_file, attempt, retry_delay, api_calls, raw_response,
                   caught, results, processed_count_in_run, exit, persist, before, failed>>

\* Line 294: mark the whole fetched batch.
PersistMark ==
    /\ pc = "mark"
    /\ \/ /\ conn' = mark_as_processed(conn, entry_ids, success_ids)
          /\ pc' = "commit"
       \/ /\ conn' = conn            \* psycopg2.Error in mark_as_processed
          /\ pc' = "rollback"
    /\ UNCHANGED <<entries, prompt_file, attempt, retry_delay, api_calls, raw_response,
                   caught, results, processed_count_in_run, exit, persist, before, failed>>

\* Lines 297-301: commit and count the batch.
PersistCommit ==
    /\ pc = "commit"
    /\ \/ /\ conn' = Commit(conn)
          /\ processed_count_in_run' = processed_count_in_run + Len(entry_ids)
          /\ persist' = "committed"
          /\ pc' = "loop"
       \/ /\ conn' = conn            \* psycopg2.Error in commit
          /\ pc' = "rollback"
          /\ UNCHANGED <<processed_count_in_run, persist>>
    /\ UNCHANGED <<entries, prompt_file, attempt, retry_delay, api_calls, raw_response,
                   caught, results, exit, before, failed>>

\* Lines 303-314: roll back, log and go on with the next iteration.  When
\* rollback() itself raises, the error is logged; the server has discarded
\* the transaction either way.
PersistRollback ==
    /\ pc = "rollback"
    /\ conn' = Rollback(conn)
    /\ persist' = "rolled_back"
    /\ failed' = [none |-> FALSE, entries |-> entries, results |-> results,
                  expect |-> Commit(mark_as_processed(
                                 IF results # <<>>
                                 THEN insert_analysed_entries([db |-> before, tx |-> before], results)
                                 ELSE [db |-> before, tx |-> before],
                                 entry_ids, success_ids)).db]
    /\ pc' = "loop"
    /\ UNCHANGED <<entries, prompt_file, attempt, retry_delay, api_calls, raw_response,
                   caught, results, processed_count_in_run, exit, before>>

\* The script is started again on the same store (lines 328-334).
NextRun ==
    /\ pc = "done"
    /\ pc' = "start"
    /\ exit' = "running"
    /\ conn' = [conn EXCEPT !.tx = conn.db]
    /\ entries' = <<>>
    /\ prompt_file' = [state |-> "unread"]
    /\ attempt' = 0
    /\ retry_delay' = initial_retry_delay
    /\ api_calls' = 0
    /\ raw_response' = NoResponse
    /\ caught' = "none"
    /\ results' = <<>>
    /\ persist' = "none"
    /\ before' = conn.db
    /\ failed' = NoFailure
    /\ UNCHANGED processed_count_in_run

\* connection_pool.getconn() (line 249) and connection_pool.putconn(conn)
\* (line 320).
getconn(out) == out + 1
putconn(out) == out - 1

\* What a step of main() does to the pool.  getconn is the first statement
\* of the try; putconn follows the while loop inside the same try, so it runs
\* after a `break` (lines 263, 269) and is skipped when an exception reaches
\* the handlers of lines 323-326.  A new start of the script builds a new
\* pool, the old one having been closed by closeall() (lines 330-334).
PoolStep ==
    pool_out' = CASE pc = "start" -> getconn(pool_out)
                  [] pc = "done" -> 0
                  [] pc # "start" /\ pc' = "done" /\ exit' \in {"exhausted", "timeout"} ->
                         putconn(pool_out)
                  [] OTHER -> pool_out

\* The loop with time left out: the clock stands still and the ceiling check
\* of TimeoutCheck may go either way.
Untimed == UNCHANGED timeVars

\* No second instance.
Alone == UNCHANGED <<twoVars, fetcherVars>>

Next ==
    \/ MainStart /\ PoolStep /\ Untimed /\ Alone
    \/ TimeoutCheck /\ PoolStep /\ Untimed /\ Alone
    \/ Poll /\ PoolStep /\ Untimed /\ Alone
    \/ ProcessBatchBegin /\ PoolStep /\ Untimed /\ Alone
    \/ ApiCallFails /\ PoolStep /\ Untimed /\ Alone
    \/ ApiCallNoText /\ PoolStep /\ Untimed /\ Alone
    \/ ApiCallReturns /\ PoolStep /\ Untimed /\ Alone
    \/ PersistInsert /\ PoolStep /\ Untimed /\ Alone
    \/ PersistMark /\ PoolStep /\ Untimed /\ Alone
    \/ PersistCommit /\ PoolStep /\ Untimed /\ Alone
    \/ PersistRollback /\ PoolStep /\ Untimed /\ Alone
    \/ NextRun /\ PoolStep /\ Untimed /\ Alone

Spec == Init /\ [][Next]_vars

\* ------------------------------------------------------------------ one run with its clock
\* Line 261: the ceiling is passed only when strictly more than
\* MAX_RUNTIME_SECONDS have elapsed.
RuntimeExceededEarly(now, start) == now - start >= MAX_RUNTIME_SECONDS
RuntimeExceeded(now, start) == now - start > MAX_RUNTIME_SECONDS

\* Lines 276-279: the sleep before process_batch is called.
RateLimitSleep(now, last) ==
    IF now - last < SECONDS_PER_REQUEST THEN SECONDS_PER_REQUEST - (now - last) ELSE 0

\* Line 283: last_request_time is set when process_batch has returned to main().
StampOnReturn ==
    last_request_time' = IF pc' = "insert" THEN clock' ELSE last_request_time

\* A generate_content call begins now.
CallBegins ==
    /\ prev_call' = last_call
    /\ last_call' = clock

\* The answers of the API in the timed run: a full array of valid items, an
\* empty array, and a text that is not JSON.
TimedTexts ==
    {<<JsonText(JList([i \in 1..BATCH_SIZE |-> ItemEmpty]))>>, <<JsonText(JList(<<>>))>>,
     <<Garbage>>}

\* Lines 249-257.
TimedMainStart ==
    /\ MainStart
    /\ start_time' = clock
    /\ last_request_time' = 0
    /\ UNCHANGED <<clock, prev_call, last_call, waits>>

\* Lines 259-263.
TimedTimeoutCheck ==
    /\ TimeoutCheck
    /\ (exit' = "timeout") = RuntimeExceeded(clock, start_time)
    /\ UNCHANGED timeVars

\* Lines 266-273.
TimedPoll == Poll /\ UNCHANGED timeVars

\* Lines 275-282 and 137-176: the rate limiter, then process_batch up to the
\* retry loop.
TimedProcessBatchBegin ==
    /\ ProcessBatchBegin
    /\ clock' = clock + RateLimitSleep(clock, last_request_time)
    /\ waits' = <<>>
    /\ StampOnReturn
    /\ UNCHANGED <<start_time, prev_call, last_call>>

\* Lines 178-193: a call that raises; time.sleep(retry_delay) unless it was
\* the last attempt.
TimedApiCallFails ==
    /\ ApiCallFails
    /\ CallBegins
    /\ \E d \in 0..MaxCallTime :
         IF attempt < max_retries - 1
         THEN clock' = clock + d + retry_delay /\ waits' = Append(waits, retry_delay)
         ELSE clock' = clock + d /\ waits' = waits
    /\ StampOnReturn
    /\ UNCHANGED start_time

TimedApiCallNoText ==
    /\ ApiCallNoText
    /\ CallBegins
    /\ \E d \in 0..MaxCallTime : clock' = clock + d
    /\ StampOnReturn
    /\ UNCHANGED <<start_time, waits>>

TimedApiCallReturns ==
    /\ ApiCallReturnsFrom(TimedTexts)
    /\ CallBegins
    /\ \E d \in 0..MaxCallTime : clock' = clock + d
    /\ StampOnReturn
    /\ UNCHANGED <<start_time, waits>>

\* Lines 286-314.
TimedPersistInsert == PersistInsert /\ UNCHANGED timeVars
TimedPersistMark == PersistMark /\ UNCHANGED timeVars
TimedPersistCommit == PersistCommit /\ UNCHANGED timeVars
TimedPersistRollback == PersistRollback /\ UNCHANGED timeVars

NextTimed ==
    \/ TimedMainStart /\ PoolStep /\ Alone
    \/ TimedTimeoutCheck /\ PoolStep /\ Alone
    \/ TimedPoll /\ PoolStep /\ Alone
    \/ TimedProcessBatchBegin /\ PoolStep /\ Alone
    \/ TimedApiCallFails /\ PoolStep /\ Alone
    \/ TimedApiCallNoText /\ PoolStep /\ Alone
    \/ TimedApiCallReturns /\ PoolStep /\ Alone
    \/ TimedPersistInsert /\ PoolStep /\ Alone
    \/ TimedPersistMark /\ PoolStep /\ Alone
    \/ TimedPersistCommit /\ PoolStep /\ Alone
    \/ TimedPersistRollback /\ PoolStep /\ Alone

SpecTimed == Init /\ [][NextTimed]_vars

\* main() is one thread: while the run has not ended, its next statement
\* is executed.
SpecTimedFair == SpecTimed /\ WF_vars(NextTimed)

\* ======================================================= properties
\* What the response text decodes to, as process_batch decodes it.
Decoded == json_loads(StripFences(raw_response))
DecodedIsList == raw_response # NoResponse /\ Decoded.exc = "none" /\ Decoded.data.t = "list"
DecodedItems == Decoded.data.items
\* Positions 1..min(decoded length, batch length).
Attempted == 1..Min(Len(DecodedItems), Len(entries))
Returned == pc = "insert"       \* process_batch has just returned to main()
RowIds(rows) == {rows[k][1] : k \in 1..Len(rows)}
BatchIds == {entries[i].id : i \in 1..Len(entries)}

\* C1: after a Persist step that commits, every entry fetched in the batch
\* has processed = TRUE in the committed store, however many results
\* process_batch returned.
C1_CommittedBatchAllProcessed ==
    (pc = "loop" /\ persist = "committed") =>
        \A i \in 1..Len(entries) : conn.db.processed[entries[i].id]

\* C1 witness: a batch of two was committed with a result for only one entry.
C1_Witness ==
    /\ pc = "loop" /\ persist = "committed"
    /\ Len(entries) = 2 /\ Len(results) = 1

C1_WitnessNoResult ==
    /\ pc = "loop" /\ persist = "committed"
    /\ Len(entries) = 2 /\ Len(results) = 0

C1_WitnessAllResults ==
    /\ pc = "loop" /\ persist = "committed"
    /\ Len(entries) = 2 /\ Len(results) = 2

\* C2: a store error during Persist leaves the committed store as it was when
\* the batch was fetched: the transaction is discarded, no row of the batch is
\* stored and no entry of the batch is marked; and when the same batch with
\* the same results is then persisted successfully, the store is what one
\* successful Persist would have made of it.
C2_RollbackLeavesStoreUnchanged ==
    /\ (pc = "loop" /\ persist = "rolled_back") =>
          /\ conn.db = before
          /\ conn.tx = conn.db
          /\ \A i \in 1..Len(entries) : ~conn.db.processed[entries[i].id]
          /\ RowIds(conn.db.analysed) \cap BatchIds = {}
    /\ (pc = "loop" /\ persist = "committed" /\ ~failed.none
          /\ failed.entries = entries /\ failed.results = results) =>
          conn.db = failed.expect

\* C2 witness: a Persist with rows to insert was rolled back, and the same
\* batch with the same results has then been committed.
C2_Witness ==
    /\ pc = "loop" /\ persist = "committed" /\ ~failed.none
    /\ failed.entries = entries /\ failed.results = results
    /\ results # <<>>

C2_WitnessRolledBack ==
    /\ pc = "loop" /\ persist = "rolled_back" /\ results # <<>>

\* C3: every committed AnalysisResult row belongs to an entry whose processed
\* flag is TRUE in the committed store.
C3_RowsOnlyForProcessedEntries ==
    \A k \in 1..Len(conn.db.analysed) : conn.db.processed[conn.db.analysed[k][1]]

\* C3 witness: rows are committed while some entry is still unprocessed, after
\* a Persist with rows to insert was rolled back.
C3_Witness ==
    /\ Len(conn.db.analysed) > 0
    /\ \E i \in Ids : ~conn.db.processed[i]
    /\ persist = "rolled_back" /\ results # <<>>

\* C4: process_batch never returns more result tuples than the batch has
\* entries.
C4_ResultsAtMostBatchSize ==
    Returned => Len(results) <= Len(entries)

\* C4 witness: the decoded array is longer than the batch and every entry of
\* the batch got a result.
C4_Witness ==
    /\ Returned /\ DecodedIsList
    /\ Len(DecodedItems) > Len(entries)
    /\ Len(results) = Len(entries)

\* The result tuple the item at position i of the decoded array stands for.
ExpectedTuple(i) == ResultTuple(entries[i].id, ArticleResponse(DecodedItems[i]))
Validates(i) == ArticleResponse(DecodedItems[i]).exc = "none"
AllAttemptedAreObjects == \A i \in Attempted : DecodedItems[i].t = "dict"

RECURSIVE ExpectedResults(_)
\* The tuples of the validating items among positions 1..n, in decoded order.
ExpectedResults(n) ==
    IF n = 0 THEN <<>>
    ELSE IF Validates(n) THEN Append(ExpectedResults(n - 1), ExpectedTuple(n))
    ELSE ExpectedResults(n - 1)

\* C5: for a decoded array of objects, the results are exactly the tuples of
\* the validating items at positions 1..min(decoded length, batch length),
\* each keyed by the identifier of the entry at its position (whatever the
\* identifier, 0 included), in decoded order.
C5_ResultsKeyedByPosition ==
    (Returned /\ DecodedIsList /\ AllAttemptedAreObjects) =>
        results = ExpectedResults(Min(Len(DecodedItems), Len(entries)))

\* C6: a response that is valid JSON but not an array yields no result, and
\* nothing is raised to main().
C6_NotAnArrayYieldsNothing ==
    (raw_response # NoResponse /\ Decoded.exc = "none" /\ Decoded.data.t # "list") =>
        /\ results = <<>>
        /\ exit # "error_process_batch"

\* C6 witness: process_batch returned on a response that decodes to an object.
C6_Witness ==
    /\ Returned
    /\ raw_response # NoResponse /\ Decoded.exc = "none" /\ Decoded.data.t = "dict"

\* C7: when an exception was raised in steps 3-9 of process_batch, the
\* returned result sequence is empty.
C7_ExceptionYieldsNoResults ==
    (Returned /\ caught \in {"KeyError", "APIError", "ValueError", "JSONDecodeError", "TypeError"})
        => results = <<>>

\* C8: in a decoded array of objects of which one fails validation, every
\* other item at positions 1..min(decoded length, batch length) that
\* validates has its result.
C8_InvalidItemSkippedAlone ==
    (Returned /\ DecodedIsList /\ AllAttemptedAreObjects
       /\ \E j \in Attempted : ~Validates(j)) =>
        \A i \in Attempted :
            Validates(i) => \E k \in 1..Len(results) : results[k] = ExpectedTuple(i)

\* C9: a failure inside process_batch never ends the run; exhausted retries
\* give zero results and the loop goes on to Persist.
C9_ProcessorFailureNeverEndsRun ==
    /\ exit # "error_process_batch"
    /\ (caught = "APIError" /\ pc # "process_batch") =>
          (results = <<>> /\ pc \in {"insert", "mark", "commit", "rollback", "loop", "poll", "done"})

\* C10: with the prompt file missing or unreadable, or the prompt blank after
\* substitution, process_batch returns no result, calls the API not once and
\* raises nothing to main().
C10_BadPromptReturnsEmpty ==
    (\/ prompt_file.state \in {"missing", "unreadable"}
     \/ (prompt_file.state = "ok" /\ prompt_file.text = "blank")) =>
        /\ results = <<>>
        /\ api_calls = 0
        /\ exit # "error_process_batch"

\* C13: a store error raised in a loop iteration of main() never ends the
\* run (it is caught in the iteration and the loop goes on).
C13_StoreErrorNeverEndsRun ==
    exit # "error_fetch"

\* Ascending by id: each entry's id is below the next one's.
Ascending(batch) == \A i \in 1..(Len(batch) - 1) : batch[i].id < batch[i + 1].id
IdsOf(batch) == {batch[i].id : i \in 1..Len(batch)}

\* A batch has just been fetched by this Poll step.
Fetched == pc = "poll" /\ pc' = "process_batch"

\* C15: every fetched batch is ascending by id and holds the lowest-id
\* unprocessed entries; a batch fetched after a committed batch has only
\* greater ids than that batch, and a batch fetched after a rolled-back
\* Persist is the same batch again.
C15_AscendingOrderWithinRun ==
    /\ [](pc = "process_batch" =>
            /\ Ascending(entries)
            /\ \A i \in IdsOf(entries) : ~conn.tx.processed[i]
            /\ \A j \in Ids \ IdsOf(entries) :
                  ~conn.tx.processed[j] =>
                      (Len(entries) = BATCH_SIZE /\ \A i \in IdsOf(entries) : i < j))
    /\ [][Fetched =>
            /\ (persist = "committed" =>
                    \A i \in IdsOf(entries) : \A j \in IdsOf(entries') : i < j)
            /\ (persist = "rolled_back" => entries' = entries)]_vars

\* C15 witness: a second batch is at hand after the first one was committed.
C15_Witness ==
    /\ pc = "process_batch" /\ persist = "committed"
    /\ processed_count_in_run = BATCH_SIZE
    /\ Len(entries) > 0

C15_WitnessRefetched ==
    /\ pc = "process_batch" /\ persist = "rolled_back" /\ Len(entries) = BATCH_SIZE

\* C18: the committed store never holds two AnalysisResult rows for the same
\* entry.
C18_AtMostOneRowPerEntry ==
    \A k \in 1..Len(conn.db.analysed) : \A l \in 1..Len(conn.db.analysed) :
        conn.db.analysed[k][1] = conn.db.analysed[l][1] => k = l

\* C18 witness: a Persist with rows was rolled back, the same batch was
\* analysed again, and its rows are now committed next to an earlier batch's.
C18_Witness ==
    /\ pc = "loop" /\ persist = "committed" /\ ~failed.none
    /\ failed.entries = entries /\ results # <<>>
    /\ Len(conn.db.analysed) > Len(results)

\* C19: when main() has returned, the connection it took from the pool has
\* been put back, whichever way the run ended.
C19_ConnectionReturnedOnEveryExit ==
    pc = "done" => pool_out = 0

\* ------------------------------------------------------ two instances, one store
\* Each instance has its own connection (READ COMMITTED, psycopg2's default):
\* a statement sees what is committed plus its own transaction's work.
ViewOf(i) ==
    [processed |-> [k \in Ids |-> store2.processed[k] \/ k \in inst[i].marked],
     analysed |-> store2.analysed \o inst[i].rows]
ConnOf(i) == [db |-> store2, tx |-> ViewOf(i)]

\* The entries another instance has fetched and not yet committed, as far as
\* the SELECT of fetch_unprocessed_entries leaves them out: it has no
\* FOR UPDATE, no claim column and no lease, so none.
ClaimedByOthersSkipped(i) ==
    UNION {IdsOf(inst[j].entries) : j \in {k \in Instances \ {i} : inst[k].pc # "loop"}}
ClaimedByOthers(i) == {}

\* Lines 266-273 in instance i.
TwoPoll(i) ==
    /\ inst[i].pc = "loop"
    /\ LET seen == [ViewOf(i) EXCEPT !.processed =
                       [k \in Ids |-> @[k] \/ k \in ClaimedByOthers(i)]]
           got == fetch_unprocessed_entries(seen, BATCH_SIZE)
       IN  inst' = [inst EXCEPT ![i].entries = got,
                                ![i].results = <<>>,
                                ![i].pc = IF got = <<>> THEN "done" ELSE "process"]
    /\ UNCHANGED store2

\* Line 282 in instance i: process_batch returns the results of an answer,
\* or none after a failure.
TwoProcess(i) ==
    /\ inst[i].pc = "process"
    /\ \/ \E text \in TimedTexts :
            inst' = [inst EXCEPT
                       ![i].results = ParseAndValidate(text, inst[i].entries, <<>>).results,
                       ![i].pc = "insert"]
       \/ inst' = [inst EXCEPT ![i].pc = "insert"]
    /\ UNCHANGED store2

\* Lines 286-291 in instance i.
TwoInsert(i) ==
    /\ inst[i].pc = "insert"
    /\ \/ LET c == IF inst[i].results # <<>>
                   THEN insert_analysed_entries(ConnOf(i), inst[i].results)
                   ELSE ConnOf(i)
          IN  inst' = [inst EXCEPT
                         ![i].rows = SubSeq(c.tx.analysed, Len(store2.analysed) + 1,
                                            Len(c.tx.analysed)),
                         ![i].pc = "mark"]
       \/ /\ inst[i].results # <<>>
          /\ inst' = [inst EXCEPT ![i].pc = "rollback"]
    /\ UNCHANGED store2

\* Line 294 in instance i.  An UPDATE waits while another transaction holds
\* the row; statement_timeout (line 98) turns a long wait into an error.
TwoMark(i) ==
    /\ inst[i].pc = "mark"
    /\ LET ids == [k \in 1..Len(inst[i].entries) |-> inst[i].entries[k].id]
           sids == [k \in 1..Len(inst[i].results) |-> inst[i].results[k][1]]
           c == mark_as_processed(ConnOf(i), ids, sids)
           locked == \E j \in Instances \ {i} : inst[j].marked \cap IdsOf(inst[i].entries) # {}
       IN  \/ /\ ~locked
              /\ inst' = [inst EXCEPT
                            ![i].marked = {k \in Ids : c.tx.processed[k] /\ ~store2.processed[k]}
                                          \cup IdsOf(inst[i].entries),
                            ![i].pc = "commit"]
           \/ inst' = [inst EXCEPT ![i].pc = "rollback"]
    /\ UNCHANGED store2

\* Lines 297-301 in instance i.
TwoCommit(i) ==
    /\ inst[i].pc = "commit"
    /\ \/ /\ store2' = Commit(ConnOf(i)).db
          /\ inst' = [inst EXCEPT ![i].rows = <<>>, ![i].marked = {}, ![i].pc = "loop"]
       \/ /\ inst' = [inst EXCEPT ![i].pc = "rollback"]
          /\ UNCHANGED store2

\* Lines 303-314 in instance i.
TwoRollback(i) ==
    /\ inst[i].pc = "rollback"
    /\ inst' = [inst EXCEPT ![i].rows = <<>>, ![i].marked = {}, ![i].pc = "loop"]
    /\ store2' = Rollback(ConnOf(i)).db

InitTwo ==
    /\ LoopIdle
    /\ FetcherIdle
    /\ store2 \in Stores
    /\ inst = [i \in Instances |-> IdleInstance]

OnlyTwo == UNCHANGED <<loopVars, pool_out, timeVars, fetcherVars>>

NextTwo ==
    \/ (\E i \in Instances : TwoPoll(i)) /\ OnlyTwo
    \/ (\E i \in Instances : TwoProcess(i)) /\ OnlyTwo
    \/ (\E i \in Instances : TwoInsert(i)) /\ OnlyTwo
    \/ (\E i \in Instances : TwoMark(i)) /\ OnlyTwo
    \/ (\E i \in Instances : TwoCommit(i)) /\ OnlyTwo
    \/ (\E i \in Instances : TwoRollback(i)) /\ OnlyTwo

SpecTwo == InitTwo /\ [][NextTwo]_vars

\* ------------------------------------------------------------------ the fetcher
Links == {"a", "b"}
\* An entry feedparser could not date has no published_parsed.
NoDate == 0
\* A feed entry: its link, datetime(*published_parsed[:6]) as a number of
\* seconds, and whether it has a title.
FeedEntries ==
    {[link |-> l, published |-> t, title |-> TRUE] : l \in Links, t \in 1..MaxTime}
    \cup {[link |-> "b", published |-> MaxTime, title |-> FALSE],
          [link |-> "a", published |-> NoDate, title |-> TRUE]}

Sources == {1, 2}
Unreachable == [status |-> "error"]
Served(entries_) == [status |-> "ok", entries |-> entries_]

\* Line 60: sorted(..., reverse=True) is stable: of two entries published at
\* the same time the one earlier in the feed stays first.
RECURSIVE SortedLatestFirst(_)
SortedLatestFirst(feed_entries) ==
    IF feed_entries = <<>> THEN <<>>
    ELSE LET n == Len(feed_entries)
             e == feed_entries[n]
             rest == SortedLatestFirst(SubSeq(feed_entries, 1, n - 1))
             ahead == Cardinality({k \in 1..Len(rest) : rest[k].published >= e.published})
         IN  SubSeq(rest, 1, ahead) \o <<e>> \o SubSeq(rest, ahead + 1, Len(rest))

\* Line 67: the comparison with the latest stored entry of the same link.
IsNewerOrSame(published, latest) == published >= latest
IsNewer(published, latest) == published > latest

\* Lines 64-67: the query sees the committed rows and, by autoflush, the
\* rows the session has added.
IsNew(visible, entry) ==
    LET same == {k \in 1..Len(visible) : visible[k].link = entry.link}
    IN  \/ same = {}
        \/ LET latest == CHOOSE k \in same : \A j \in same : visible[k].published >= visible[j].published
           IN  IsNewer(entry.published, visible[latest].published)

\* Lines 62-79: the loop over latest_entries.  entry.title of an entry
\* without a title raises AttributeError; what the session holds stays.
RECURSIVE AddLoop(_, _, _, _)
AddLoop(latest_entries, committed, session, source_id) ==
    IF latest_entries = <<>> THEN [raised |-> FALSE, session |-> session]
    ELSE LET entry == Head(latest_entries)
         IN  IF IsNew(committed \o session, entry)
             THEN IF ~entry.title
                  THEN [raised |-> TRUE, session |-> session]
                  ELSE AddLoop(Tail(latest_entries), committed,
                               Append(session, [link |-> entry.link,
                                                published |-> entry.published,
                                                feed_id |-> source_id]),
                               source_id)
             ELSE AddLoop(Tail(latest_entries), committed, session, source_id)

\* Lines 58-79.  The sort key of an undated entry raises before anything is
\* added.
add_new_entries(committed, session, feed_entries, source_id, limit_) ==
    IF \E k \in 1..Len(feed_entries) : feed_entries[k].published = NoDate
    THEN [raised |-> TRUE, session |-> session]
    ELSE LET sorted == SortedLatestFirst(feed_entries)
         IN  AddLoop(SubSeq(sorted, 1, Min(limit_, Len(sorted))), committed, session, source_id)

\* The first source serves up to limit + 1 entries, the second up to one.
FeedsOfLength(n) == UNION {[1..k -> FeedEntries] : k \in 0..n}
FeedContents ==
    {f \in [Sources -> {Served(e) : e \in FeedsOfLength(limit + 1)} \cup {Unreachable}] :
        f[2].status = "ok" => Len(f[2].entries) <= 1}

InitFetcher ==
    /\ LoopIdle
    /\ TwoIdle
    /\ fpc = "sources"
    /\ run = 1
    /\ src = 1
    /\ feeds \in FeedContents
    /\ fstore \in {<<>>, <<[link |-> "a", published |-> 1, feed_id |-> 2]>>}
    /\ pending = <<>>
    /\ after1 = <<>>

\* Lines 89-110: one source.  A failed request is logged; an exception in
\* add_new_entries is logged and the commit of line 101 is skipped.
FetchAndSave ==
    /\ fpc = "sources"
    /\ src \in Sources
    /\ IF feeds[src].status = "error"
       THEN UNCHANGED <<fstore, pending>>
       ELSE LET r == add_new_entries(fstore, pending, feeds[src].entries, src, limit)
            IN  IF r.raised
                THEN pending' = r.session /\ fstore' = fstore
                ELSE pending' = <<>> /\ fstore' = fstore \o r.session
    /\ src' = src + 1
    /\ UNCHANGED <<fpc, run, feeds, after1>>

\* Line 112: session.close() discards what was not committed.
CloseSession ==
    /\ fpc = "sources"
    /\ src \notin Sources
    /\ pending' = <<>>
    /\ fpc' = "closed"
    /\ after1' = IF run = 1 THEN fstore ELSE after1
    /\ UNCHANGED <<run, src, feeds, fstore>>

\* The script is run a second time (lines 115-116), the feeds unchanged.
RunAgain ==
    /\ fpc = "closed"
    /\ run = 1
    /\ run' = 2
    /\ src' = 1
    /\ fpc' = "sources"
    /\ UNCHANGED <<feeds, fstore, pending, after1>>

OnlyFetcher == UNCHANGED <<loopVars, pool_out, timeVars, twoVars>>

NextFetcher ==
    \/ FetchAndSave /\ OnlyFetcher
    \/ CloseSession /\ OnlyFetcher
    \/ RunAgain /\ OnlyFetcher

SpecFetcher == InitFetcher /\ [][NextFetcher]_vars

\* ------------------------------------------------------------------ C11
\* C11: for one batch process_batch calls the API at most 3 times; a call is
\* made only when every call before it failed and was followed by its wait,
\* the waits are 1 then 2, there is no wait after the last call (a success or
\* the third failure), and after the third failure the batch has no result.
C11_AtMostThreeCallsWithBackoff ==
    /\ [](/\ api_calls <= 3
          /\ waits \in {<<>>, <<1>>, <<1, 2>>}
          /\ pc = "generate" => api_calls = Len(waits)
          /\ (Returned /\ api_calls > 0) => Len(waits) = api_calls - 1
          /\ (Returned /\ caught = "APIError") => (api_calls = 3 /\ results = <<>>))
    /\ [][api_calls' = api_calls + 1 => (pc = "generate" /\ api_calls = Len(waits))]_vars

\* The third call has failed.
C11_Witness ==
    /\ Returned
    /\ caught = "APIError"
    /\ api_calls = 3
    /\ waits = <<1, 2>>

\* ------------------------------------------------------------------ C12
\* C12: any two consecutive calls to the generation API within a run, first
\* attempts and retries alike, begin at least SECONDS_PER_REQUEST apart.
C12_CallsSpacedByMinimumInterval ==
    prev_call # NoCall => last_call - prev_call >= SECONDS_PER_REQUEST

\* ------------------------------------------------------------------ C14
\* C14: a run of main() ends either because the fetch returned no entry or
\* because the runtime ceiling was exceeded.
C14_RunEndsExhaustedOrTimedOut ==
    pc = "done" => exit \in {"exhausted", "timeout"}

\* What does hold of the ending of a run: it is reached (the rate limiter
\* makes every iteration after the first take SECONDS_PER_REQUEST), a
\* committed iteration leaves fewer unprocessed entries, and an exhausted
\* run leaves none.
Unprocessed(db) == Cardinality({i \in Ids : ~db.processed[i]})
RunTerminates ==
    /\ (pc = "start") ~> (pc = "done")
    /\ [][(pc = "commit" /\ pc' = "loop") =>
             Unprocessed(conn'.db) < Unprocessed(before)]_vars
    /\ [](exit = "exhausted" => Unprocessed(conn.db) = 0)

\* Calls of different batches are kept apart by the rate limiter.
FirstAttemptsSpaced ==
    (prev_call # NoCall /\ api_calls = 1 /\ pc \in {"generate", "insert"}) =>
        last_call - prev_call >= SECONDS_PER_REQUEST

\* ------------------------------------------------------------------ C17
Elapsed == clock - start_time
InBatch == pc \in {"process_batch", "generate", "insert", "mark", "commit", "rollback"}

\* C17: the run ends by timeout only at the head of the loop and only when
\* more than MAX_RUNTIME_SECONDS have elapsed; a check that finds the ceiling
\* exceeded ends the run with no fetch, API call or store write, and nothing
\* runs after it; a batch already begun goes on whatever the clock says; a
\* run ended by timeout has returned its connection like a normal end.
C17_CeilingCheckedOnlyAtLoopHead ==
    /\ [][(exit # "timeout" /\ exit' = "timeout") =>
             (pc = "loop" /\ Elapsed > MAX_RUNTIME_SECONDS)]_vars
    /\ [][(pc = "loop" /\ Elapsed > MAX_RUNTIME_SECONDS) =>
             (/\ exit' = "timeout" /\ pc' = "done"
              /\ UNCHANGED <<conn, entries, api_calls, last_call, clock>>)]_vars
    /\ [][(pc = "loop" /\ Elapsed <= MAX_RUNTIME_SECONDS) => pc' = "poll"]_vars
    /\ [][exit # "timeout"]_vars
    /\ [][InBatch => (exit' # "timeout" /\ (InBatch' \/ pc' \in {"loop", "done"}))]_vars
    /\ [](exit = "timeout" => (pc = "done" /\ pool_out = 0))

\* A batch is being persisted although the ceiling has been passed.
C17_Witness ==
    /\ pc = "commit"
    /\ Elapsed > MAX_RUNTIME_SECONDS
    /\ api_calls = 3

\* The run has ended by timeout.
C17_WitnessTimedOut ==
    /\ exit = "timeout"
    /\ processed_count_in_run > 0

\* ------------------------------------------------------------------ C16
RowsFor(db, e) == Cardinality({k \in 1..Len(db.analysed) : db.analysed[k][1] = e})

\* C16: nothing another instance has fetched or holds in an open transaction
\* is kept from an instance's fetch: it gets the first BATCH_SIZE entries
\* that are committed unprocessed, so both instances can hold the same entry;
\* each instance commits at most one row per entry, two rows at most in all.
C16_FetchIgnoresOtherInstance ==
    /\ [][\A i \in Instances :
            (inst[i].pc = "loop" /\ inst'[i].pc # "loop") =>
                inst'[i].entries = fetch_unprocessed_entries(store2, BATCH_SIZE)]_vars
    /\ [](\A e \in Ids : RowsFor(store2, e) <= Cardinality(Instances))

\* Both instances fetched entry e and both committed a row for it.
C16_Witness ==
    \E e \in Ids : RowsFor(store2, e) = 2

\* ------------------------------------------------------------------ C20
Visible == fstore \o pending

\* C20: an entry is added only when its link is not stored yet or when it is
\* published later than every stored entry of that link, so the rows of one
\* link are stored in strictly increasing published order and no two rows
\* share link and published time; a second run over the same feeds leaves
\* the store as the first run left it and adds nothing to the session.
C20_FetcherDeduplicates ==
    /\ \A k, l \in 1..Len(Visible) :
          (k < l /\ Visible[k].link = Visible[l].link) =>
              Visible[k].published < Visible[l].published
    /\ run = 2 /\ fpc = "sources" => (fstore = after1 /\ pending = <<>>)
    /\ run = 2 /\ fpc = "closed" /\ feeds # <<>> => fstore = after1

\* Every entry the feeds serve has a title, so that no add_new_entries
\* call stops at line 72.
AllTitled ==
    \A s \in DOMAIN feeds :
        feeds[s].status = "ok" =>
            \A k \in 1..Len(feeds[s].entries) : feeds[s].entries[k].title

\* C20, second run only for feeds whose entries all have a title: the rows
\* of one link are stored in strictly increasing published order, so no two
\* rows share link and published time; when every served entry has a title,
\* a second run over the same feeds leaves the store as the first run left
\* it and adds nothing to the session.
C20_DeduplicatesWhenTitled ==
    /\ \A k, l \in 1..Len(Visible) :
          (k < l /\ Visible[k].link = Visible[l].link) =>
              Visible[k].published < Visible[l].published
    /\ (AllTitled /\ run = 2 /\ fpc = "sources") => (fstore = after1 /\ pending = <<>>)
    /\ (AllTitled /\ run = 2 /\ fpc = "closed" /\ feeds # <<>>) => fstore = after1

\* The second run has gone through feeds of which the first run stored two
\* entries and skipped one.
C20_Witness ==
    /\ feeds # <<>>
    /\ AllTitled
    /\ run = 2
    /\ fpc = "closed"
    /\ Len(fstore) >= 2
    /\ feeds[1].status = "ok"
    /\ Len(feeds[1].entries) > limit
    /\ \E k \in 1..Len(feeds[1].entries) : \E r \in 1..Len(fstore) :
          /\ feeds[1].entries[k].link = fstore[r].link
          /\ feeds[1].entries[k].published < fstore[r].published

====
